---- MODULE Spec2Model ----
(***************************************************************************)
(* The block manager of the validator's journal:                          *)
(* validator/sawtooth_validator/journal/block_manager.py.                  *)
(*                                                                         *)
(* The Python class BlockManager is a thin layer over a native engine:     *)
(* every method marshals its arguments, calls one entry point of the       *)
(* engine (block_manager_put, block_manager_ref_block, ...) and turns the  *)
(* integer result code into an exception (_exec).  The Python layer is     *)
(* modelled from block_manager.py.  The engine's entry points are not part *)
(* of that file; they are modelled from the design document (sections 3,   *)
(* 4 and 7) and are the operators named block_manager_*.                   *)
(*                                                                         *)
(* Operations are operators over a manager state m, a record               *)
(*   [pool, refs, store_names, stores]                                     *)
(* and return the new state together with what Python observes; the        *)
(* actions apply them to the variables.                                    *)
(***************************************************************************)
EXTENDS Integers, Sequences, FiniteSets

VARIABLES
    pool,         \* Pool: block id -> Block, the blocks not yet persisted
    refs,         \* ReferenceCounter: block id -> pin count
    store_names,  \* StoreRegistry: registered names, in registration order
    stores,       \* StoreRegistry: name -> (block id -> Block)
    iter,         \* the iterator a caller holds (_BlockIterator), what it
                  \* has returned and the exception its last __next__ raised
    persisted,    \* block id -> what get([id]) yielded when persist took the id
    last,         \* the last call of a BlockManager method other than a
                  \* traversal: method, exception raised
    net_refs      \* block id -> the ref_block calls that have returned less
                  \* the unref_block calls that have returned

vars == <<pool, refs, store_names, stores, iter, persisted, last, net_refs>>

-----------------------------------------------------------------------------
(* Bounds *)

\* longest branch handed to put
MaxBranch == 2

\* most pins the callers hold at one time
MaxPins == 1

\* longest list of ids handed to get
MaxGet == 2

\* largest result code looked at: one more than the largest ErrorCode
MaxCode == 18

-----------------------------------------------------------------------------
(* class ErrorCode(IntEnum) *)

Success == 0
NullPointerProvided == 1
MissingPredecessorCode == 2
MissingPredecessorInBranchCode == 3
MissingInputCode == 4
UnknownBlockCode == 5
InvalidInputString == 6
Error == 7
InvalidPythonObject == 15
StopIterationCode == 17

ErrorCode == {Success, NullPointerProvided, MissingPredecessorCode,
              MissingPredecessorInBranchCode, MissingInputCode,
              UnknownBlockCode, InvalidInputString, Error,
              InvalidPythonObject, StopIterationCode}

\* what a call does when it does not raise
None == "None"

-----------------------------------------------------------------------------
(* Blocks, ids and store names the callers use *)

\* the "no predecessor" sentinel a genesis block carries
NoPredecessor == "NoPredecessor"

Block(block_id, previous_block_id, payload) ==
    [block_id |-> block_id, previous_block_id |-> previous_block_id,
     payload |-> payload]

\* G <- B1 <- B2 is a chain.  B2f carries the id of B2 and forks off G beside
\* B1; B1x carries the id of B1 and names B2 as its predecessor.  Which block
\* an id denotes is settled by the put that brings the id in.  "unknown" is
\* an id no block has.
GENESIS == Block("G", NoPredecessor, "pg")
B1 == Block("B1", "G", "p1")
B2 == Block("B2", "B1", "p2")
B2f == Block("B2", "G", "p2f")
B1x == Block("B1", "B2", "p1x")

Blocks == {GENESIS, B1, B2, B2f, B1x}

BlockIds == {b.block_id : b \in Blocks} \cup {"unknown"}

StoreNames == {"store1", "store2"}

\* names handed to add_store and persist: the good ones and a malformed one
NameInputs == StoreNames \cup {""}

\* Seq(S) up to length n
RECURSIVE SeqsUpTo(_, _)
SeqsUpTo(S, n) ==
    IF n = 0 THEN {<<>>}
    ELSE LET shorter == SeqsUpTo(S, n - 1)
         IN  shorter \cup {Append(q, x) : q \in {r \in shorter : Len(r) = n - 1}, x \in S}

Branches == SeqsUpTo(Blocks, MaxBranch)

\* the id lists handed to get: B1 and its successor B2, in either order, each
\* of them known or not when the call is made
GetIds == {"B1", "B2"}

IdLists == SeqsUpTo(GetIds, MaxGet)

-----------------------------------------------------------------------------
(* The external codec: Block.SerializeToString / Block.ParseFromString *)

SerializeToString(block) ==
    <<block.block_id, block.previous_block_id, block.payload>>

ParseFromString(bytes) == Block(bytes[1], bytes[2], bytes[3])

-----------------------------------------------------------------------------
(* The engine *)

Manager == [pool |-> pool, refs |-> refs, store_names |-> store_names,
            stores |-> stores]

\* block_manager_new: empty Pool, no Store, every pin count zero
block_manager_new ==
    [pool |-> <<>>, refs |-> [i \in BlockIds |-> 0], store_names |-> <<>>,
     stores |-> <<>>]

\* the registered stores that hold id, in registration order
StoresHolding(m, id) ==
    SelectSeq(m.store_names, LAMBDA n : id \in DOMAIN m.stores[n])

InPool(m, id) == id \in DOMAIN m.pool

\* id resolves in the Pool or in some registered Store
Resolves(m, id) == InPool(m, id) \/ StoresHolding(m, id) # <<>>

\* Pool first, then the Stores in registration order
Resolve(m, id) ==
    IF InPool(m, id) THEN m.pool[id]
    ELSE m.stores[Head(StoresHolding(m, id))][id]

block_manager_contains(m, block_id) == Resolves(m, block_id)

NameIsMalformed(name) == name = ""

Registered(m, name) == \E i \in DOMAIN m.store_names : m.store_names[i] = name

block_manager_add_store(m, name) ==
    IF NameIsMalformed(name) \/ Registered(m, name)
    THEN [m |-> m, res |-> InvalidInputString]
    ELSE [m |-> [m EXCEPT !.store_names = Append(@, name),
                          !.stores = [n \in DOMAIN @ \cup {name} |->
                                        IF n = name THEN <<>> ELSE @[n]]],
          res |-> Success]

\* Insert gone wrong: the block replaces whatever its id denoted
Insert_overwrite(m, block) ==
    [m EXCEPT !.pool = [i \in DOMAIN @ \cup {block.block_id} |->
                          IF i = block.block_id THEN block ELSE @[i]],
              !.refs[block.block_id] = 0]

\* Insert gone wrong: the block an id denotes stays, its pin count starts
\* again at zero
Insert_resets_pins(m, block) ==
    IF Resolves(m, block.block_id) THEN [m EXCEPT !.refs[block.block_id] = 0]
    ELSE [m EXCEPT !.pool = [i \in DOMAIN @ \cup {block.block_id} |->
                               IF i = block.block_id THEN block ELSE @[i]],
                   !.refs[block.block_id] = 0]

\* a block enters the Pool under its id unless that id already denotes a
\* block in the Pool or a Store
Insert(m, block) ==
    IF Resolves(m, block.block_id) THEN m
    ELSE [m EXCEPT !.pool = [i \in DOMAIN @ \cup {block.block_id} |->
                               IF i = block.block_id THEN block ELSE @[i]],
                   !.refs[block.block_id] = 0]

RECURSIVE InsertAll(_, _)
InsertAll(m, blocks) ==
    IF blocks = <<>> THEN m
    ELSE InsertAll(Insert(m, Head(blocks)), Tail(blocks))

Contiguous(blocks) ==
    \A i \in 2..Len(blocks) : blocks[i].previous_block_id = blocks[i - 1].block_id

\* B2g carries the id of B2 and is a genesis block of its own: a second
\* history, which shares no ancestor with the chain of G.  It is put by the
\* callers that run beside a traversal; the branches they put are chains
\* (each block names the one before it), whose first predecessor may or may
\* not be known.
B2g == Block("B2", NoPredecessor, "p2g")

OtherBranches ==
    {b \in SeqsUpTo(Blocks \cup {B2g}, MaxBranch) : Contiguous(b)}

PredecessorKnown(m, block) ==
    block.previous_block_id = NoPredecessor \/ Resolves(m, block.previous_block_id)

block_manager_put(m, entries, len) ==
    LET blocks == [i \in 1..len |-> ParseFromString(entries[i])]
    IN  IF len = 0 THEN [m |-> m, res |-> MissingInputCode]
        ELSE IF ~PredecessorKnown(m, blocks[1])
        THEN [m |-> m, res |-> MissingPredecessorCode]
        ELSE IF ~Contiguous(blocks)
        THEN [m |-> m, res |-> MissingPredecessorInBranchCode]
        ELSE [m |-> InsertAll(m, blocks), res |-> Success]

block_manager_ref_block(m, block_id) ==
    IF ~Resolves(m, block_id) THEN [m |-> m, res |-> UnknownBlockCode]
    ELSE [m |-> [m EXCEPT !.refs[block_id] = @ + 1], res |-> Success]

block_manager_unref_block(m, block_id) ==
    IF ~Resolves(m, block_id) \/ m.refs[block_id] = 0
    THEN [m |-> m, res |-> UnknownBlockCode]
    ELSE [m |-> [m EXCEPT !.refs[block_id] = @ - 1], res |-> Success]

\* persist gone wrong: the block leaves the Pool before the Store has it, and
\* the call returns there
block_manager_persist_drops(m, block_id, store_name) ==
    IF ~InPool(m, block_id) THEN [m |-> m, res |-> UnknownBlockCode]
    ELSE IF ~Registered(m, store_name) THEN [m |-> m, res |-> Error]
    ELSE [m |-> [m EXCEPT !.pool = [i \in DOMAIN @ \ {block_id} |-> @[i]]],
          res |-> Success]

block_manager_persist(m, block_id, store_name) ==
    IF ~InPool(m, block_id) THEN [m |-> m, res |-> UnknownBlockCode]
    ELSE IF ~Registered(m, store_name) THEN [m |-> m, res |-> Error]
    ELSE [m |-> [m EXCEPT
                   !.stores[store_name] =
                       [i \in DOMAIN @ \cup {block_id} |->
                          IF i = block_id THEN m.pool[block_id] ELSE @[i]],
                   !.pool = [i \in DOMAIN @ \ {block_id} |-> @[i]]],
          res |-> Success]

\* the engine's end of a native iterator: which traversal it is, the ids a
\* get was asked for and how many it has passed, the id a branch walk
\* resolves next, the id whose ancestors a branch diff leaves out, and
\* whether the traversal has ended.  A traversal that has ended stays ended
\* (single-pass, not resumed).
NULL == <<>>

NativeIterator(name, ids, next_block_id, exclude) ==
    [name |-> name, ids |-> ids, index |-> 0, next_block_id |-> next_block_id,
     exclude |-> exclude, done |-> FALSE]

\* the traversal ends here
Ends(it) == [it |-> [it EXCEPT !.done = TRUE], res |-> StopIterationCode,
             vec |-> NULL]

block_manager_get_iterator_new(m, block_ids, len) ==
    [it |-> NativeIterator("block_manager_get_iterator",
                           SubSeq(block_ids, 1, len), NoPredecessor, NoPredecessor),
     res |-> Success]

\* next of a get gone wrong: the end is not kept, and each call looks again
\* at the id the traversal stopped at
block_manager_get_iterator_next_resumes(m, it) ==
    IF it.index >= Len(it.ids) \/ ~Resolves(m, it.ids[it.index + 1])
    THEN [it |-> it, res |-> StopIterationCode, vec |-> NULL]
    ELSE [it |-> [it EXCEPT !.index = @ + 1], res |-> Success,
          vec |-> SerializeToString(Resolve(m, it.ids[it.index + 1]))]

\* an id that does not resolve ends the traversal: no later id is looked at
block_manager_get_iterator_next(m, it) ==
    IF it.done \/ it.index >= Len(it.ids) \/ ~Resolves(m, it.ids[it.index + 1])
    THEN Ends(it)
    ELSE [it |-> [it EXCEPT !.index = @ + 1], res |-> Success,
          vec |-> SerializeToString(Resolve(m, it.ids[it.index + 1]))]

block_manager_branch_iterator_new(m, tip) ==
    [it |-> NativeIterator("block_manager_branch_iterator", <<>>, tip,
                           NoPredecessor),
     res |-> Success]

\* next of a branch gone wrong: the walk does not move on to the predecessor
block_manager_branch_iterator_next_stuck(m, it) ==
    IF it.done \/ it.next_block_id = NoPredecessor \/ ~Resolves(m, it.next_block_id)
    THEN Ends(it)
    ELSE [it |-> it, res |-> Success,
          vec |-> SerializeToString(Resolve(m, it.next_block_id))]

block_manager_branch_iterator_next(m, it) ==
    IF it.done \/ it.next_block_id = NoPredecessor \/ ~Resolves(m, it.next_block_id)
    THEN Ends(it)
    ELSE LET block == Resolve(m, it.next_block_id)
         IN  [it |-> [it EXCEPT !.next_block_id = block.previous_block_id],
              res |-> Success, vec |-> SerializeToString(block)]

\* id is on the ancestor chain of from, from included
RECURSIVE OnChain(_, _, _, _)
OnChain(m, id, from, fuel) ==
    IF from = NoPredecessor \/ ~Resolves(m, from) \/ fuel = 0 THEN FALSE
    ELSE IF from = id THEN TRUE
    ELSE OnChain(m, id, Resolve(m, from).previous_block_id, fuel - 1)

block_manager_branch_diff_iterator_new(m, tip, exclude) ==
    [it |-> NativeIterator("block_manager_branch_diff_iterator", <<>>, tip,
                           exclude),
     res |-> Success]

\* the walk from tip ends at the first block that exclude's chain has too
block_manager_branch_diff_iterator_next(m, it) ==
    IF \/ it.done
       \/ it.next_block_id = NoPredecessor
       \/ ~Resolves(m, it.next_block_id)
       \/ OnChain(m, it.next_block_id, it.exclude, Cardinality(BlockIds))
    THEN Ends(it)
    ELSE LET block == Resolve(m, it.next_block_id)
         IN  [it |-> [it EXCEPT !.next_block_id = block.previous_block_id],
              res |-> Success, vec |-> SerializeToString(block)]

-----------------------------------------------------------------------------
(* block_manager.py *)

\* _exec gone wrong: the two predecessor errors exchanged
_exec_swapped(res) ==
    IF res = Success THEN None
    ELSE IF res = NullPointerProvided THEN "TypeError"
    ELSE IF res = StopIterationCode THEN "StopIteration"
    ELSE IF res = MissingPredecessorCode THEN "MissingPredecessorInBranch"
    ELSE IF res = MissingPredecessorInBranchCode THEN "MissingPredecessor"
    ELSE IF res = MissingInputCode THEN "MissingInput"
    ELSE IF res = UnknownBlockCode THEN "UnknownBlock"
    ELSE IF res = InvalidInputString THEN "TypeError"
    ELSE "Exception"

\* _exec gone wrong: no branch for UnknownBlock, which falls through to the
\* generic exception
_exec_unknown_block_unmapped(res) ==
    IF res = Success THEN None
    ELSE IF res = NullPointerProvided THEN "TypeError"
    ELSE IF res = StopIterationCode THEN "StopIteration"
    ELSE IF res = MissingPredecessorCode THEN "MissingPredecessor"
    ELSE IF res = MissingPredecessorInBranchCode THEN "MissingPredecessorInBranch"
    ELSE IF res = MissingInputCode THEN "MissingInput"
    ELSE IF res = InvalidInputString THEN "TypeError"
    ELSE "Exception"

\* _exec gone wrong: no final else, a code without a branch of its own
\* returns normally
_exec_swallows_unnamed(res) ==
    IF res = Success THEN None
    ELSE IF res = NullPointerProvided THEN "TypeError"
    ELSE IF res = StopIterationCode THEN "StopIteration"
    ELSE IF res = MissingPredecessorCode THEN "MissingPredecessor"
    ELSE IF res = MissingPredecessorInBranchCode THEN "MissingPredecessorInBranch"
    ELSE IF res = MissingInputCode THEN "MissingInput"
    ELSE IF res = UnknownBlockCode THEN "UnknownBlock"
    ELSE IF res = InvalidInputString THEN "TypeError"
    ELSE None

\* _exec gone wrong: InvalidPythonObject is taken for a success
_exec_python_object_ignored(res) ==
    IF res = Success \/ res = InvalidPythonObject THEN None
    ELSE IF res = NullPointerProvided THEN "TypeError"
    ELSE IF res = StopIterationCode THEN "StopIteration"
    ELSE IF res = MissingPredecessorCode THEN "MissingPredecessor"
    ELSE IF res = MissingPredecessorInBranchCode THEN "MissingPredecessorInBranch"
    ELSE IF res = MissingInputCode THEN "MissingInput"
    ELSE IF res = UnknownBlockCode THEN "UnknownBlock"
    ELSE IF res = InvalidInputString THEN "TypeError"
    ELSE "Exception"

\* _exec: the exception a result code raises, None when the call returns
_exec(res) ==
    IF res = Success THEN None
    ELSE IF res = NullPointerProvided THEN "TypeError"
    ELSE IF res = StopIterationCode THEN "StopIteration"
    ELSE IF res = MissingPredecessorCode THEN "MissingPredecessor"
    ELSE IF res = MissingPredecessorInBranchCode THEN "MissingPredecessorInBranch"
    ELSE IF res = MissingInputCode THEN "MissingInput"
    ELSE IF res = UnknownBlockCode THEN "UnknownBlock"
    ELSE IF res = InvalidInputString THEN "TypeError"
    ELSE "Exception"

\* the message the exception of _exec carries; the generic one carries the
\* result code
_exec_message(res) ==
    IF res = Success THEN None
    ELSE IF res = NullPointerProvided THEN <<"Provided null pointer(s)">>
    ELSE IF res = StopIterationCode THEN <<>>
    ELSE IF res = MissingPredecessorCode THEN <<"Missing predecessor">>
    ELSE IF res = MissingPredecessorInBranchCode THEN <<"Missing predecessor">>
    ELSE IF res = MissingInputCode THEN <<"Missing input to put method">>
    ELSE IF res = UnknownBlockCode THEN <<"Block was unknown">>
    ELSE IF res = InvalidInputString THEN <<"Invalid block store name provided">>
    ELSE <<"There was an unknown error: {}", res>>

\* _libexec and _pylibexec: the call's effect on the manager and the
\* exception _exec raises for its result code
_libexec(r) == [m |-> r.m, exc |-> _exec(r.res)]

_pylibexec(r) == [m |-> r.m, exc |-> _exec(r.res)]

\* add_store gone wrong: the entry point is called and its result code is
\* not looked at
add_store_unchecked(m, name) ==
    [m |-> block_manager_add_store(m, name).m, exc |-> None]

add_store(m, name) == _pylibexec(block_manager_add_store(m, name))

\* put gone wrong: the last block of the branch is not handed over
put_short(m, branch) ==
    LET len == IF branch = <<>> THEN 0 ELSE Len(branch) - 1
        c_put_items == [i \in 1..len |-> SerializeToString(branch[i])]
    IN  _libexec(block_manager_put(m, c_put_items, len))

\* put gone wrong: one call of the engine for each block of the branch
RECURSIVE put_each(_, _)
put_each(m, branch) ==
    IF branch = <<>> THEN _libexec(block_manager_put(m, <<>>, 0))
    ELSE LET r == _libexec(block_manager_put(m, <<SerializeToString(Head(branch))>>, 1))
         IN  IF r.exc # None \/ Len(branch) = 1 THEN r
             ELSE put_each(r.m, Tail(branch))

\* put gone wrong: the first block is handed over in one call and the rest
\* of the branch in a second one
put_split(m, branch) ==
    IF Len(branch) < 2
    THEN _libexec(block_manager_put(
             m, [i \in 1..Len(branch) |-> SerializeToString(branch[i])],
             Len(branch)))
    ELSE LET first == _libexec(block_manager_put(
                          m, <<SerializeToString(branch[1])>>, 1))
             rest == [i \in 1..(Len(branch) - 1) |->
                        SerializeToString(branch[i + 1])]
         IN  IF first.exc # None THEN first
             ELSE _libexec(block_manager_put(first.m, rest, Len(branch) - 1))

put(m, branch) ==
    LET c_put_items == [i \in 1..Len(branch) |-> SerializeToString(branch[i])]
    IN  _libexec(block_manager_put(m, c_put_items, Len(branch)))

\* ref_block gone wrong: the entry point is called a second time when the
\* first call has returned
ref_block_twice(m, block_id) ==
    LET once == _libexec(block_manager_ref_block(m, block_id))
    IN  IF once.exc # None THEN once
        ELSE _libexec(block_manager_ref_block(once.m, block_id))

ref_block(m, block_id) == _libexec(block_manager_ref_block(m, block_id))

\* unref_block gone wrong: it calls the entry point of ref_block
unref_block_calls_ref(m, block_id) ==
    _libexec(block_manager_ref_block(m, block_id))

unref_block(m, block_id) == _libexec(block_manager_unref_block(m, block_id))

\* persist gone wrong: the two strings handed over in the other order
persist_swapped(m, block_id, store_name) ==
    _libexec(block_manager_persist(m, store_name, block_id))

persist(m, block_id, store_name) ==
    _libexec(block_manager_persist(m, block_id, store_name))

\* __contains__: the c_bool the engine filled in
contains(m, block_id) == block_manager_contains(m, block_id)

\* _GetBlockIterator gone wrong: the length handed over is one short
_GetBlockIterator_short(m, block_ids) ==
    LET len == IF block_ids = <<>> THEN 0 ELSE Len(block_ids) - 1
        r == block_manager_get_iterator_new(m, block_ids, len)
    IN  [self |-> [name |-> "block_manager_get_iterator", c_iter_ptr |-> r.it],
         exc |-> _exec(r.res)]

\* _GetBlockIterator gone wrong: c_block_ids is filled from the far end
_GetBlockIterator_reversed(m, block_ids) ==
    LET c_block_ids == [i \in 1..Len(block_ids) |->
                          block_ids[Len(block_ids) + 1 - i]]
        r == block_manager_get_iterator_new(m, c_block_ids, Len(block_ids))
    IN  [self |-> [name |-> "block_manager_get_iterator", c_iter_ptr |-> r.it],
         exc |-> _exec(r.res)]

\* _GetBlockIterator.__init__ and _BranchIterator.__init__: the iterator
\* object, with the pointer the engine filled in
_GetBlockIterator(m, block_ids) ==
    LET r == block_manager_get_iterator_new(m, block_ids, Len(block_ids))
    IN  [self |-> [name |-> "block_manager_get_iterator", c_iter_ptr |-> r.it],
         exc |-> _exec(r.res)]

\* _BranchIterator gone wrong: the class carries the name of the get iterator
_BranchIterator_misnamed(m, tip) ==
    LET r == block_manager_branch_iterator_new(m, tip)
    IN  [self |-> [name |-> "block_manager_get_iterator", c_iter_ptr |-> r.it],
         exc |-> _exec(r.res)]

_BranchIterator(m, tip) ==
    LET r == block_manager_branch_iterator_new(m, tip)
    IN  [self |-> [name |-> "block_manager_branch_iterator", c_iter_ptr |-> r.it],
         exc |-> _exec(r.res)]

\* _BranchDiffIterator gone wrong: tip and exclude handed over in the other
\* order
_BranchDiffIterator_swapped(m, tip, exclude) ==
    LET r == block_manager_branch_diff_iterator_new(m, exclude, tip)
    IN  [self |-> [name |-> "block_manager_branch_diff_iterator",
                   c_iter_ptr |-> r.it],
         exc |-> _exec(r.res)]

_BranchDiffIterator(m, tip, exclude) ==
    LET r == block_manager_branch_diff_iterator_new(m, tip, exclude)
    IN  [self |-> [name |-> "block_manager_branch_diff_iterator",
                   c_iter_ptr |-> r.it],
         exc |-> _exec(r.res)]

get(m, block_ids) == _GetBlockIterator(m, block_ids)

branch(m, tip) == _BranchIterator(m, tip)

branch_diff(m, tip, exclude) == _BranchDiffIterator(m, tip, exclude)

\* "{}_next".format(self.name)
call_next(m, self) ==
    IF self.name = "block_manager_get_iterator"
    THEN block_manager_get_iterator_next(m, self.c_iter_ptr)
    ELSE IF self.name = "block_manager_branch_iterator"
    THEN block_manager_branch_iterator_next(m, self.c_iter_ptr)
    ELSE block_manager_branch_diff_iterator_next(m, self.c_iter_ptr)

\* _BlockIterator.__next__: the block returned or the exception raised
__next__(m, self) ==
    IF self.c_iter_ptr = NULL
    THEN [self |-> self, exc |-> "StopIteration", block |-> NULL]
    ELSE LET r == call_next(m, self)
             raised == _exec(r.res)
             after == [self EXCEPT !.c_iter_ptr = r.it]
         IN  IF raised # None
             THEN [self |-> after, exc |-> raised, block |-> NULL]
             ELSE IF r.vec = NULL
             THEN [self |-> after, exc |-> "StopIteration", block |-> NULL]
             ELSE [self |-> after, exc |-> None, block |-> ParseFromString(r.vec)]

\* list(iterator) on a manager nobody else touches: the blocks __next__
\* returns until it raises.  A walk longer than the number of ids there are
\* is cut off.
MaxWalk == Cardinality(BlockIds) + 1

RECURSIVE Drain(_, _, _)
Drain(m, self, n) ==
    LET r == __next__(m, self)
    IN  IF r.exc # None \/ n = 0 THEN <<>>
        ELSE <<r.block>> \o Drain(m, r.self, n - 1)

list(m, made) == IF made.exc # None THEN <<>> ELSE Drain(m, made.self, MaxWalk)

\* the exception that ends list(iterator)
RECURSIVE DrainEnd(_, _, _)
DrainEnd(m, self, n) ==
    LET r == __next__(m, self)
    IN  IF r.exc # None \/ n = 0 THEN r.exc
        ELSE DrainEnd(m, r.self, n - 1)

\* list(get([id]))
GetOne(m, id) == list(m, get(m, <<id>>))

-----------------------------------------------------------------------------
(* The state machine *)

\* no iterator object
NoIter == [kind |-> "none", self |-> NULL, ids |-> <<>>, tip |-> "",
           exclude |-> "", yielded |-> <<>>, exc |-> None]

\* a new iterator object of a traversal call and the arguments of that call
NewIter(kind, self, ids, tip, exclude) ==
    [kind |-> kind, self |-> self, ids |-> ids, tip |-> tip,
     exclude |-> exclude, yielded |-> <<>>, exc |-> None]

Call(op, exc) == [op |-> op, exc |-> exc]

Init ==
    /\ pool = block_manager_new.pool
    /\ refs = block_manager_new.refs
    /\ store_names = block_manager_new.store_names
    /\ stores = block_manager_new.stores
    /\ iter = NoIter
    /\ persisted = <<>>
    /\ last = Call("__init__", None)
    /\ net_refs = [id \in BlockIds |-> 0]

Becomes(m) ==
    /\ pool' = m.pool
    /\ refs' = m.refs
    /\ store_names' = m.store_names
    /\ stores' = m.stores

RECURSIVE Sum(_, _)
Sum(f, S) ==
    IF S = {} THEN 0
    ELSE LET x == CHOOSE y \in S : TRUE IN f[x] + Sum(f, S \ {x})

\* the pins the callers hold
Pins(r) == Sum(r, DOMAIN r)

AddStore ==
    \E name \in NameInputs :
        LET r == add_store(Manager, name)
        IN  /\ Becomes(r.m)
            /\ last' = Call("add_store", r.exc)
            /\ UNCHANGED <<iter, persisted, net_refs>>

Put ==
    \E b \in Branches :
        LET r == put(Manager, b)
        IN  /\ Becomes(r.m)
            /\ last' = Call("put", r.exc)
            /\ UNCHANGED <<iter, persisted, net_refs>>

RefBlock ==
    \E id \in BlockIds :
        LET r == ref_block(Manager, id)
        IN  /\ r.exc = None => Pins(refs) < MaxPins
            /\ Becomes(r.m)
            /\ last' = Call("ref_block", r.exc)
            /\ net_refs' = IF r.exc # None THEN net_refs
                           ELSE [net_refs EXCEPT ![id] = @ + 1]
            /\ UNCHANGED <<iter, persisted>>

UnrefBlock ==
    \E id \in BlockIds :
        LET r == unref_block(Manager, id)
        IN  /\ Becomes(r.m)
            /\ last' = Call("unref_block", r.exc)
            /\ net_refs' = IF r.exc # None THEN net_refs
                           ELSE [net_refs EXCEPT ![id] = @ - 1]
            /\ UNCHANGED <<iter, persisted>>

Persist ==
    \E id \in BlockIds, name \in NameInputs :
        LET r == persist(Manager, id, name)
        IN  /\ Becomes(r.m)
            /\ persisted' = IF r.exc # None THEN persisted
                            ELSE [i \in DOMAIN persisted \cup {id} |->
                                    IF i = id THEN GetOne(Manager, id)
                                    ELSE persisted[i]]
            /\ last' = Call("persist", r.exc)
            /\ UNCHANGED <<iter, net_refs>>

Contains ==
    \E id \in BlockIds :
        /\ contains(Manager, id) \in BOOLEAN
        /\ last' = Call("__contains__", None)
        /\ UNCHANGED <<pool, refs, store_names, stores, iter, persisted, net_refs>>

\* add_store, put and persist called by another caller than the one whose
\* calls last records
OtherAddStore ==
    \E name \in NameInputs :
        /\ Becomes(add_store(Manager, name).m)
        /\ UNCHANGED <<iter, persisted, last, net_refs>>

OtherPut ==
    \E b \in OtherBranches :
        /\ Becomes(put(Manager, b).m)
        /\ UNCHANGED <<iter, persisted, last, net_refs>>

OtherPersist ==
    \E id \in BlockIds, name \in NameInputs :
        LET r == persist(Manager, id, name)
        IN  /\ Becomes(r.m)
            /\ persisted' = IF r.exc # None THEN persisted
                            ELSE [i \in DOMAIN persisted \cup {id} |->
                                    IF i = id THEN GetOne(Manager, id)
                                    ELSE persisted[i]]
            /\ UNCHANGED <<iter, last, net_refs>>

\* branch(tip): the caller takes a new cursor
Branch ==
    \E tip \in BlockIds :
        LET r == branch(Manager, tip)
        IN  /\ iter' = IF r.exc # None THEN iter
                       ELSE NewIter("branch", r.self, <<>>, tip, "")
            /\ UNCHANGED <<pool, refs, store_names, stores, persisted, last, net_refs>>

\* get(block_ids)
Get ==
    \E block_ids \in IdLists :
        LET r == get(Manager, block_ids)
        IN  /\ iter' = IF r.exc # None THEN iter
                       ELSE NewIter("get", r.self, block_ids, "", "")
            /\ UNCHANGED <<pool, refs, store_names, stores, persisted, last, net_refs>>

\* branch_diff(tip, exclude)
BranchDiff ==
    \E tip \in BlockIds, exclude \in BlockIds :
        LET r == branch_diff(Manager, tip, exclude)
        IN  /\ iter' = IF r.exc # None THEN iter
                       ELSE NewIter("branch_diff", r.self, <<>>, tip, exclude)
            /\ UNCHANGED <<pool, refs, store_names, stores, persisted, last, net_refs>>

\* next(iterator)
IterNext ==
    /\ iter.kind # "none"
    /\ LET r == __next__(Manager, iter.self)
       IN  iter' = [iter EXCEPT !.self = r.self,
                                !.yielded = IF r.exc = None THEN Append(@, r.block)
                                            ELSE @,
                                !.exc = r.exc]
    /\ UNCHANGED <<pool, refs, store_names, stores, persisted, last, net_refs>>

\* the caller lets go of the iterator (_BlockIterator.__del__)
IterDel ==
    /\ iter.kind # "none"
    /\ iter' = NoIter
    /\ UNCHANGED <<pool, refs, store_names, stores, persisted, last, net_refs>>

\* the calls that change or query the manager
Next ==
    \/ AddStore
    \/ Put
    \/ RefBlock
    \/ UnrefBlock
    \/ Persist
    \/ Contains

Spec == Init /\ [][Next]_vars

\* callers who pin and unpin blocks while others put, persist and add stores
NextPins ==
    \/ OtherAddStore
    \/ OtherPut
    \/ OtherPersist
    \/ RefBlock
    \/ UnrefBlock

SpecPins == Init /\ [][NextPins]_vars

\* a caller walking a branch while others put, persist and add stores; pin
\* counts take no part in a traversal and stay as they are
NextTraversal ==
    \/ OtherAddStore
    \/ OtherPut
    \/ OtherPersist
    \/ Branch
    \/ IterNext
    \/ IterDel

SpecTraversal == Init /\ [][NextTraversal]_vars

\* callers holding an iterator of any of the three traversals while others
\* put and persist
NextIterators ==
    \/ OtherAddStore
    \/ OtherPut
    \/ OtherPersist
    \/ Get
    \/ Branch
    \/ BranchDiff
    \/ IterNext
    \/ IterDel

SpecIterators == Init /\ [][NextIterators]_vars

\* a caller who walks one branch or branch diff at a time and lets go of the
\* iterator when it has ended
TakeBranch == iter.kind = "none" /\ Branch

TakeBranchDiff == iter.kind = "none" /\ BranchDiff

DropEnded == iter.exc # None /\ IterDel

NextWalk ==
    \/ OtherAddStore
    \/ OtherPut
    \/ OtherPersist
    \/ TakeBranch
    \/ TakeBranchDiff
    \/ IterNext
    \/ DropEnded

\* the caller goes on calling next for as long as that does anything
SpecWalk == Init /\ [][NextWalk]_vars /\ WF_vars(IterNext)

-----------------------------------------------------------------------------
(* Properties *)

Last(q) == q[Len(q)]

\* the ids known to the manager
KnownIds(m) == {id \in BlockIds : Resolves(m, id)}

\* id sits in some registered Store
Persisted(m, id) == StoresHolding(m, id) # <<>>

\* the first block's predecessor is the sentinel or is known
FirstKnown(m, b) ==
    b[1].previous_block_id = NoPredecessor \/ contains(m, b[1].previous_block_id)

\* some later block does not name the block before it
BrokenInside(b) ==
    \E i \in 2..Len(b) : b[i].previous_block_id # b[i - 1].block_id

\* C1: a non-empty branch that is contiguous and whose first predecessor is
\* known (or is the genesis sentinel) is accepted by put, and afterwards
\* contains is true of every id of the branch.
C1_PutValidBranch ==
    \A b \in Branches :
        (b # <<>> /\ ~BrokenInside(b) /\ FirstKnown(Manager, b)) =>
            LET r == put(Manager, b)
            IN  /\ r.exc = None
                /\ \A i \in DOMAIN b : contains(r.m, b[i].block_id)

\* put([GENESIS, B1]) has succeeded on a manager that held nothing
C1_Witness ==
    /\ last = Call("put", None)
    /\ DOMAIN pool = {"G", "B1"}
    /\ store_names = <<>>

\* C2: a put that fails leaves Pool, pin counts, store registry and Stores as
\* they were, so no id of the branch that was unknown becomes known.
C2_PutAllOrNothing ==
    \A b \in Branches :
        LET r == put(Manager, b)
        IN  r.exc # None =>
                /\ r.m = Manager
                /\ \A i \in DOMAIN b :
                       ~contains(Manager, b[i].block_id) => ~contains(r.m, b[i].block_id)

\* a put has failed on a broken branch whose first block could have entered:
\* GENESIS is known, B1 is not
C2_Witness ==
    /\ last = Call("put", "MissingPredecessorInBranch")
    /\ contains(Manager, "G")
    /\ ~contains(Manager, "B1")

\* C3: put raises MissingInput for an empty branch, MissingPredecessor for a
\* branch whose first predecessor is neither the sentinel nor known, and
\* MissingPredecessorInBranch for a branch that passes those two tests and is
\* not contiguous, whether or not the predecessor named instead is known.
C3_PutFailureKinds ==
    \A b \in Branches :
        LET r == put(Manager, b)
        IN  /\ b = <<>> => r.exc = "MissingInput"
            /\ (b # <<>> /\ ~FirstKnown(Manager, b)) => r.exc = "MissingPredecessor"
            /\ (b # <<>> /\ FirstKnown(Manager, b) /\ BrokenInside(b)) =>
                   r.exc = "MissingPredecessorInBranch"

\* with B1 and B2 known, a put has failed on a branch that is not contiguous
C3_Witness ==
    /\ last = Call("put", "MissingPredecessorInBranch")
    /\ contains(Manager, "B1")
    /\ contains(Manager, "B2")

\* following predecessor ids from id never comes back to an id in seen
RECURSIVE NeverReturns(_, _, _)
NeverReturns(m, id, seen) ==
    IF id = NoPredecessor \/ ~Resolves(m, id) THEN TRUE
    ELSE IF id \in seen THEN FALSE
    ELSE NeverReturns(m, Resolve(m, id).previous_block_id, seen \cup {id})

C5_RefThenUnref ==
    \A id \in KnownIds(Manager) :
        LET pinned == ref_block(Manager, id)
            unpinned == unref_block(pinned.m, id)
        IN  /\ pinned.exc = None
            /\ unpinned.exc = None
            /\ unpinned.m = Manager

\* an unref_block has returned and no pin is left
C5_Witness ==
    /\ last = Call("unref_block", None)
    /\ Pins(refs) = 0
    /\ KnownIds(Manager) # {}

\* C6: no pin count is negative; unref_block of a count of zero, and
\* ref_block and unref_block of an unknown id, raise UnknownBlock and change
\* no pin count.
C6_PinCountNeverNegative ==
    /\ \A id \in BlockIds : refs[id] >= 0
    /\ \A id \in BlockIds :
           LET pinned == ref_block(Manager, id)
               unpinned == unref_block(Manager, id)
           IN  /\ (~contains(Manager, id) \/ refs[id] = 0) =>
                      (unpinned.exc = "UnknownBlock" /\ unpinned.m.refs = refs)
               /\ ~contains(Manager, id) =>
                      (pinned.exc = "UnknownBlock" /\ pinned.m.refs = refs)

\* an unref_block has raised UnknownBlock while every known block had a count
\* of zero
C6_Witness ==
    /\ last = Call("unref_block", "UnknownBlock")
    /\ contains(Manager, "B1")
    /\ Pins(refs) = 0

\* C7: every id that a persist has taken is still known, and get([id])
\* yields one block, the block it yielded before that persist.
C7_PersistedStaysRetrievable ==
    \A id \in DOMAIN persisted :
        /\ contains(Manager, id)
        /\ Len(GetOne(Manager, id)) = 1
        /\ GetOne(Manager, id) = persisted[id]
        /\ GetOne(Manager, id)[1].block_id = id

\* GENESIS and B1 were persisted, and a put has added B2 since
C7_Witness ==
    /\ last = Call("put", None)
    /\ DOMAIN persisted = {"G", "B1"}
    /\ GetOne(Manager, "B1") = <<B1>>
    /\ InPool(Manager, "B2")

\* C8: persist raises UnknownBlock when the id is not in the Pool (never
\* known, or persisted already), and another error when the id is in the Pool
\* and the store name is not registered; a persist that raises changes
\* nothing; no block is in two Stores, or in a Store and the Pool.
C8_PersistFailures ==
    /\ \A id \in BlockIds :
           /\ Len(StoresHolding(Manager, id)) <= 1
           /\ ~(InPool(Manager, id) /\ Persisted(Manager, id))
    /\ \A id \in BlockIds, name \in NameInputs :
           LET r == persist(Manager, id, name)
           IN  /\ ~InPool(Manager, id) => r.exc = "UnknownBlock"
               /\ (InPool(Manager, id) /\ ~Registered(Manager, name)) =>
                      r.exc \notin {None, "UnknownBlock"}
               /\ r.exc # None => r.m = Manager

\* a persist has raised UnknownBlock with both stores registered and every
\* known block persisted already
C8_Witness ==
    /\ last = Call("persist", "UnknownBlock")
    /\ Len(store_names) = 2
    /\ Persisted(Manager, "G")
    /\ DOMAIN pool = {}

\* list(branch(tip))
Walk(m, tip) == list(m, branch(m, tip))

\* C9: persist of a block of the Pool into a registered store returns
\* whatever the pin counts are, and branch(tip) yields the same blocks after
\* it as before it, for every tip.
C9_PersistInvisibleToBranch ==
    \A id \in DOMAIN pool, name \in StoreNames :
        Registered(Manager, name) =>
            LET r == persist(Manager, id, name)
            IN  /\ r.exc = None
                /\ \A tip \in BlockIds : Walk(r.m, tip) = Walk(Manager, tip)

\* B2 is pinned, B1 has been persisted into store1, and branch(B2) yields
\* B2, B1, GENESIS
C9_Witness ==
    /\ last = Call("persist", None)
    /\ refs["B2"] = 1
    /\ Registered(Manager, "store1")
    /\ "B1" \in DOMAIN stores["store1"]
    /\ Walk(Manager, "B2") = <<B2, B1, GENESIS>>

\* the id a branch iterator is to yield next: the tip, then the predecessor
\* of the block it yielded last
Due(it) ==
    IF it.yielded = <<>> THEN it.tip ELSE Last(it.yielded).previous_block_id

Diff(m, tip, exclude) == list(m, branch_diff(m, tip, exclude))

\* the ids on the ancestor chain of from, from included
ChainIds(m, from) ==
    {Walk(m, from)[i].block_id : i \in DOMAIN Walk(m, from)}

\* C11: branch_diff(tip, exclude) yields the blocks of branch(tip) whose ids
\* are not on the chain of exclude, in the order of branch(tip); they are the
\* blocks before the first shared one.  It yields nothing when tip is
\* exclude or an ancestor of exclude, and all of branch(tip) when the two
\* chains share no block.
C11_BranchDiff ==
    \A tip \in BlockIds, exclude \in BlockIds :
        LET chain == Walk(Manager, tip)
            shared == ChainIds(Manager, exclude)
            diff == Diff(Manager, tip, exclude)
        IN  /\ diff = SelectSeq(chain, LAMBDA b : b.block_id \notin shared)
            /\ diff = SubSeq(chain, 1, Len(diff))
            /\ (tip = exclude \/ tip \in shared) => diff = <<>>
            /\ (\A i \in DOMAIN chain : chain[i].block_id \notin shared) =>
                   diff = chain

\* two histories: branch_diff(B1, B2) has yielded B1 and GENESIS and ended,
\* B2 being a genesis block of its own
C11_Witness ==
    /\ iter.kind = "branch_diff"
    /\ iter.tip = "B1"
    /\ iter.exclude = "B2"
    /\ iter.yielded = <<B1, GENESIS>>
    /\ iter.exc = "StopIteration"
    /\ Resolves(Manager, "B2")
    /\ Resolve(Manager, "B2") = B2g

\* the ids of the blocks of a sequence
IdsOf(blocks) == [k \in DOMAIN blocks |-> blocks[k].block_id]

\* q is a prefix of r
IsPrefix(q, r) == Len(q) <= Len(r) /\ q = SubSeq(r, 1, Len(q))

\* C12: what a get iterator has yielded is a prefix of what was asked for:
\* at most len(ids) blocks, the k-th with the id ids[k], so no id is passed
\* over; this holds for the iterator a caller steps while others put and
\* persist, and for list(get(ids)) in every state.
C12_GetPrefix ==
    /\ iter.kind = "get" => IsPrefix(IdsOf(iter.yielded), iter.ids)
    /\ \A block_ids \in IdLists :
           IsPrefix(IdsOf(list(Manager, get(Manager, block_ids))), block_ids)

\* get([B2, B1]) has ended without a block: B1 is known, B2 is not
C12_Witness ==
    /\ iter.kind = "get"
    /\ iter.ids = <<"B2", "B1">>
    /\ iter.yielded = <<>>
    /\ iter.exc = "StopIteration"
    /\ contains(Manager, "B1")
    /\ ~contains(Manager, "B2")

\* C13: add_store of a malformed name or of a name already registered is
\* answered with the InvalidInputString code, which _exec raises as the
\* TypeError "Invalid block store name provided", and the registry is as
\* before: the same names in the same order, each with the store it had.
C13_AddStoreRejects ==
    \A name \in NameInputs :
        (NameIsMalformed(name) \/ Registered(Manager, name)) =>
            LET r == add_store(Manager, name)
            IN  /\ block_manager_add_store(Manager, name).res = InvalidInputString
                /\ r.exc = "TypeError"
                /\ _exec_message(block_manager_add_store(Manager, name).res) =
                       <<"Invalid block store name provided">>
                /\ r.m.store_names = store_names
                /\ r.m.stores = stores
                /\ r.m = Manager

\* an add_store has been refused while store1 and store2 were registered,
\* in this order, and store1 held GENESIS
C13_Witness ==
    /\ last = Call("add_store", "TypeError")
    /\ store_names = <<"store1", "store2">>
    /\ DOMAIN stores["store1"] = {"G"}

\* what the predecessor id of a block is to a reader: the sentinel, or an id
\* that contains answers true for
PredecessorSeen(m, block) ==
    block.previous_block_id = NoPredecessor \/ contains(m, block.previous_block_id)

\* what contains, get and branch show of every id
Seen(m) ==
    [id \in BlockIds |-> <<contains(m, id), GetOne(m, id), Walk(m, id)>>]

Rest(m, self) == <<Drain(m, self, MaxWalk), DrainEnd(m, self, MaxWalk)>>

Known(m) == Cardinality(KnownIds(m))

\* a walk has returned no more blocks than are known, no id twice, and what
\* is left of it ends within that number too
WalkBounded ==
    iter.kind \in {"branch", "branch_diff"} =>
        /\ Len(iter.yielded) <= Known(Manager)
        /\ \A j \in DOMAIN iter.yielded, k \in DOMAIN iter.yielded :
               j # k => iter.yielded[j].block_id # iter.yielded[k].block_id
        /\ Len(iter.yielded) + Len(Rest(Manager, iter.self)[1]) <= Known(Manager)
        /\ Rest(Manager, iter.self)[2] = "StopIteration"

Places(m, id) == (IF InPool(m, id) THEN 1 ELSE 0) + Len(StoresHolding(m, id))

\* every id known in m denotes in after the block it denotes in m
SameBlocks(m, after) ==
    \A id \in KnownIds(m) :
        Resolves(after, id) /\ Resolve(after, id) = Resolve(m, id)

\* the pin counts of the ids known in m are in after what they are in m
SamePins(m, after) == \A id \in KnownIds(m) : after.refs[id] = m.refs[id]

Codes == 0..MaxCode

\* the codes _exec has a branch for
NamedCodes == {Success, NullPointerProvided, StopIterationCode,
               MissingPredecessorCode, MissingPredecessorInBranchCode,
               MissingInputCode, UnknownBlockCode, InvalidInputString}

\* C20: _exec returns for Success and for no other code; every other code
\* raises one exception, in the call that got the code: MissingPredecessor,
\* MissingPredecessorInBranch, MissingInput and UnknownBlock the exception
\* of their name, NullPointerProvided and InvalidInputString a TypeError,
\* StopIteration a StopIteration, and every code _exec has no branch for
\* (Error, InvalidPythonObject, numbers that are no ErrorCode) the generic
\* Exception, whose message carries the code.
C20_ExecDispatch ==
    /\ \A res \in Codes :
           /\ (_exec(res) = None) <=> (res = Success)
           /\ (_exec_message(res) = None) <=> (res = Success)
           /\ res = MissingPredecessorCode => _exec(res) = "MissingPredecessor"
           /\ res = MissingPredecessorInBranchCode =>
                  _exec(res) = "MissingPredecessorInBranch"
           /\ res = MissingInputCode => _exec(res) = "MissingInput"
           /\ res = UnknownBlockCode => _exec(res) = "UnknownBlock"
           /\ res \in {NullPointerProvided, InvalidInputString} =>
                  _exec(res) = "TypeError"
           /\ res = StopIterationCode => _exec(res) = "StopIteration"
           /\ res \notin NamedCodes =>
                  /\ _exec(res) = "Exception"
                  /\ _exec_message(res) = <<"There was an unknown error: {}", res>>
           /\ _libexec([m |-> Manager, res |-> res]) =
                  [m |-> Manager, exc |-> _exec(res)]
           /\ _pylibexec([m |-> Manager, res |-> res]) =
                  [m |-> Manager, exc |-> _exec(res)]
    /\ ErrorCode \subseteq Codes
    /\ {Error, InvalidPythonObject} \cap NamedCodes = {}

\* a persist of B1, which is in the Pool, into a store that is not
\* registered has come back with the code Error and raised the generic
\* Exception
C20_Witness ==
    /\ last = Call("persist", "Exception")
    /\ DOMAIN pool = {"G", "B1"}
    /\ store_names = <<>>

====
